---- MODULE Spec2Model ----
(***************************************************************************)
(* Model of the colour helpers of graphs/utils.py:                         *)
(*   getContinuousColor(colorscale, intermed)  and  rgbToHex(rgb),         *)
(* and of the classes that use them: Animation (graphs/animation.py),      *)
(* Graph (graphs/types.py) and GanttChart (graphs/graphs.py).  Each has    *)
(* its own specification over the variables below: Spec and SpecHex for    *)
(* the colour helpers, SpecAnimation, SpecGraph and SpecGantt.             *)
(*                                                                         *)
(* Strings are sequences of one-character strings, so that formatting      *)
(* (f'{x:02x}', str()) and parsing (eval of 'rgb(r, g, b)' with 'rgb'      *)
(* removed) are modelled character by character.                           *)
(*                                                                         *)
(* Real numbers (cutoffs, the query intermed) are numerators over the      *)
(* common denominator Unit = 2^GridBits, so 0.0 is 0 and 1.0 is Unit.      *)
(* On such a dyadic grid the double-precision arithmetic of the code       *)
(* gives, after int(), the same integer as exact rational arithmetic.      *)
(***************************************************************************)
EXTENDS Integers, Sequences, FiniteSets

VARIABLES
    \* graphs/utils.py: the arguments drawn and the last call with its result
    colorscale, rgb, call,
    \* graphs/animation.py: the class attribute Animation.settings, the
    \* instances constructed so far and the last operation on them
    anim_settings, animations, anim_call,
    \* graphs/types.py: self.settings of a Graph and its last operation
    graph_settings, graph_call,
    \* graphs/graphs.py: the events given to GanttChart.createFigure and
    \* what the call built
    events, gantt_call

colorVars == <<colorscale, rgb, call>>
animVars == <<anim_settings, animations, anim_call>>
graphVars == <<graph_settings, graph_call>>
ganttVars == <<events, gantt_call>>

vars == <<colorVars, animVars, graphVars, ganttVars>>

(***************************************************************************)
(* Bounds                                                                  *)
(***************************************************************************)
\* the grid has 2^GridBits steps between 0.0 and 1.0
GridBits == 2
\* the longest colorscale drawn
MaxStops == 3

RECURSIVE Pow2(_)
Pow2(n) == IF n = 0 THEN 1 ELSE 2 * Pow2(n - 1)

\* the numerator standing for 1.0
Unit == Pow2(GridBits)

(***************************************************************************)
(* Python values and call outcomes                                         *)
(***************************************************************************)
PyStr(chars) == [type |-> "str", chars |-> chars, items |-> <<>>]
PyTuple(items) == [type |-> "tuple", chars |-> <<>>, items |-> items]
PyIntValue(n) == [type |-> "int", chars |-> <<>>, items |-> <<n>>]

Return(v) == [kind |-> "return", value |-> v, exc |-> ""]
Raise(e) == [kind |-> "raise", value |-> <<>>, exc |-> e]

(***************************************************************************)
(* Formatting: str(int), str(tuple), 'rgb(r, g, b)', f'{n:02x}'            *)
(***************************************************************************)
DigitChars == <<"0", "1", "2", "3", "4", "5", "6", "7", "8", "9">>
HexChars == DigitChars \o <<"a", "b", "c", "d", "e", "f">>

IsDigit(c) == c \in {"0", "1", "2", "3", "4", "5", "6", "7", "8", "9"}
DigitVal(c) == (CHOOSE i \in 1..10 : DigitChars[i] = c) - 1
IsLetter(c) ==
    c \in {"a", "b", "c", "d", "e", "f", "g", "h", "i", "j", "k", "l", "m",
           "n", "o", "p", "q", "r", "s", "t", "u", "v", "w", "x", "y", "z", "_",
           "A", "B", "C", "D", "E", "F", "G", "H", "I", "J", "K", "L", "M",
           "N", "O", "P", "Q", "R", "S", "T", "U", "V", "W", "X", "Y", "Z"}

RECURSIVE DecDigits(_)
DecDigits(n) ==
    IF n < 10 THEN <<DigitChars[n + 1]>>
    ELSE DecDigits(n \div 10) \o <<DigitChars[(n % 10) + 1]>>

\* str(n) of a Python int
IntStr(n) == IF n < 0 THEN <<"-">> \o DecDigits(-n) ELSE DecDigits(n)

\* str(t) of a Python 3-tuple of ints: '(r, g, b)'
TupleStr(t) ==
    <<"(">> \o IntStr(t[1]) \o <<",", " ">> \o IntStr(t[2])
        \o <<",", " ">> \o IntStr(t[3]) \o <<")">>

\* the literal 'rgb(r, g, b)' of the tests
LabelRgb(t) == <<"r", "g", "b">> \o TupleStr(t)

\* the literal 'rgb(r,g,b)' of plotly.colors.PLOTLY_SCALES
CompactRgb(t) ==
    <<"r", "g", "b", "(">> \o IntStr(t[1]) \o <<",">> \o IntStr(t[2])
        \o <<",">> \o IntStr(t[3]) \o <<")">>

\* str(v): a str is itself, a tuple is its repr
StrOf(v) == IF v.type = "str" THEN v.chars ELSE TupleStr(v.items)

RECURSIVE HexDigitsOf(_)
HexDigitsOf(n) ==
    IF n < 16 THEN <<HexChars[n + 1]>>
    ELSE HexDigitsOf(n \div 16) \o <<HexChars[(n % 16) + 1]>>

FormatHex02_NoPad(n) ==
    IF n < 0 THEN <<"-">> \o HexDigitsOf(-n) ELSE HexDigitsOf(n)

\* f'{n:02x}': lowercase hex, zero-padded to width 2 (the sign counts)
FormatHex02(n) ==
    IF n < 0 THEN <<"-">> \o HexDigitsOf(-n)
    ELSE IF n < 16 THEN <<"0">> \o HexDigitsOf(n)
    ELSE HexDigitsOf(n)

(***************************************************************************)
(* Parsing: rgb.replace('rgb', '') and eval(...)                           *)
(***************************************************************************)
StrReplaceRgb_Noop(s) == s

\* s with every 'rgb' from position i on removed, left to right
RECURSIVE RemoveRgbFrom(_, _)
RemoveRgbFrom(s, i) ==
    IF i > Len(s) THEN <<>>
    ELSE IF i + 2 <= Len(s) /\ s[i] = "r" /\ s[i + 1] = "g" /\ s[i + 2] = "b"
    THEN RemoveRgbFrom(s, i + 3)
    ELSE <<s[i]>> \o RemoveRgbFrom(s, i + 1)

\* s.replace('rgb', '')
StrReplaceRgb(s) == RemoveRgbFrom(s, 1)

\* the length of the run of digits of s that starts at position i
RECURSIVE DigitRun(_, _)
DigitRun(s, i) ==
    IF i <= Len(s) /\ IsDigit(s[i]) THEN 1 + DigitRun(s, i + 1) ELSE 0

\* the length of the identifier of s that starts at position i
RECURSIVE LetterRun(_, _)
LetterRun(s, i) ==
    IF i <= Len(s) /\ (IsLetter(s[i]) \/ IsDigit(s[i]))
    THEN 1 + LetterRun(s, i + 1) ELSE 0

\* the value of the n decimal digits of s that start at position i
RECURSIVE DecValue(_, _, _)
DecValue(s, i, n) ==
    IF n = 0 THEN 0
    ELSE DecValue(s, i, n - 1) * 10 + DigitVal(s[i + n - 1])

\* a decimal literal with a leading zero is a syntax error unless it is zero
IntToken(s, i, n, v) ==
    [t |-> IF n > 1 /\ s[i] = "0" /\ v # 0 THEN "bad" ELSE "int", v |-> v]

\* the identifier of n characters at position i of s: True and False are
\* the integers 1 and 0 (bool is a subclass of int), any other name is
\* taken to be bound to nothing where eval runs
NameToken(s, i, n) ==
    IF SubSeq(s, i, i + n - 1) = <<"T", "r", "u", "e">> THEN [t |-> "int", v |-> 1]
    ELSE IF SubSeq(s, i, i + n - 1) = <<"F", "a", "l", "s", "e">> THEN [t |-> "int", v |-> 0]
    ELSE [t |-> "name", v |-> 0]

\* the tokens of a Python expression made of ( ) , - integers and names,
\* from position i of s on
RECURSIVE TokenizeFrom(_, _)
TokenizeNumber(s, i, n) ==
    <<IntToken(s, i, n, DecValue(s, i, n))>> \o TokenizeFrom(s, i + n)

TokenizeFrom(s, i) ==
    IF i > Len(s) THEN <<>>
    ELSE IF s[i] = " " THEN TokenizeFrom(s, i + 1)
    ELSE IF s[i] \in {"(", ")", ",", "-"} THEN
        <<[t |-> s[i], v |-> 0]>> \o TokenizeFrom(s, i + 1)
    ELSE IF IsDigit(s[i]) THEN TokenizeNumber(s, i, DigitRun(s, i))
    ELSE IF IsLetter(s[i]) THEN
        <<NameToken(s, i, LetterRun(s, i))>> \o TokenizeFrom(s, i + LetterRun(s, i))
    ELSE <<[t |-> "bad", v |-> 0]>> \o TokenizeFrom(s, i + 1)

Tokenize(s) == TokenizeFrom(s, 1)

ParseFail == [ok |-> FALSE, items |-> <<>>, commas |-> 0, names |-> FALSE]

\* an atom followed by "," and the already parsed rest of the list
ParseCons(item, isname, more) ==
    IF ~more.ok THEN ParseFail
    ELSE [ok |-> TRUE, items |-> <<item>> \o more.items,
          commas |-> more.commas + 1, names |-> isname \/ more.names]

\* atom ("," atom)* [","] with atom = ["-"] int | name
RECURSIVE ParseItems(_)
ParseItems(toks) ==
    LET after(item, isname, rest) ==
            IF rest = <<>>
            THEN [ok |-> TRUE, items |-> <<item>>, commas |-> 0, names |-> isname]
            ELSE IF rest[1].t # "," THEN ParseFail
            ELSE ParseCons(item, isname, ParseItems(Tail(rest)))
    IN  IF toks = <<>>
        THEN [ok |-> TRUE, items |-> <<>>, commas |-> 0, names |-> FALSE]
        ELSE IF toks[1].t = "int" THEN after(toks[1].v, FALSE, Tail(toks))
        ELSE IF toks[1].t = "name" THEN after(0, TRUE, Tail(toks))
        ELSE IF toks[1].t = "-" /\ Len(toks) >= 2 /\ toks[2].t = "int"
        THEN after(-toks[2].v, FALSE, SubSeq(toks, 3, Len(toks)))
        ELSE ParseFail

\* the value of the parsed items: a tuple when the expression holds a comma
\* or is empty, the bare value when it is a single atom
PyEvalItems(inner) ==
    IF ~inner.ok THEN Raise("SyntaxError")
    ELSE IF inner.names THEN Raise("NameError")
    ELSE IF inner.commas = 0 /\ Len(inner.items) = 1
    THEN Return(PyIntValue(inner.items[1]))
    ELSE Return(PyTuple(inner.items))

PyEvalTokens(toks) ==
    IF Len(toks) < 2 \/ toks[1].t # "(" \/ toks[Len(toks)].t # ")"
    THEN Raise("SyntaxError")
    ELSE PyEvalItems(ParseItems(SubSeq(toks, 2, Len(toks) - 1)))

\* eval(s) of a parenthesised expression
PyEval(s) == PyEvalTokens(Tokenize(s))

(***************************************************************************)
(* rgbToHex                                                                *)
(***************************************************************************)
FormatHexColor_ZeroFill(v) ==
    IF v.kind = "raise" THEN Return(<<"#", "0", "0", "0", "0", "0", "0">>)
    ELSE IF v.value.type = "int"
    THEN Return(<<"#">> \o FormatHex02(v.value.items[1]) \o <<"0", "0", "0", "0">>)
    ELSE Return(<<"#">>
            \o (IF Len(v.value.items) >= 1 THEN FormatHex02(v.value.items[1]) ELSE <<"0", "0">>)
            \o (IF Len(v.value.items) >= 2 THEN FormatHex02(v.value.items[2]) ELSE <<"0", "0">>)
            \o (IF Len(v.value.items) >= 3 THEN FormatHex02(v.value.items[3]) ELSE <<"0", "0">>))

FormatHexColor_Checked(v) ==
    IF v.kind = "raise" THEN Raise(v.exc)
    ELSE IF v.value.type = "int" THEN Raise("TypeError")
    ELSE IF Len(v.value.items) < 3 THEN Raise("IndexError")
    ELSE IF \E ch \in 1..3 : v.value.items[ch] < 0 \/ v.value.items[ch] > 255
    THEN Raise("ValueError")
    ELSE Return(<<"#">> \o FormatHex02(v.value.items[1])
                    \o FormatHex02(v.value.items[2])
                    \o FormatHex02(v.value.items[3]))

\* f'#{rgb[0]:02x}{rgb[1]:02x}{rgb[2]:02x}' of the value v, or the
\* exception that eval raised
FormatHexColor(v) ==
    IF v.kind = "raise" THEN Raise(v.exc)
    ELSE IF v.value.type = "int" THEN Raise("TypeError")
    ELSE IF Len(v.value.items) < 3 THEN Raise("IndexError")
    ELSE Return(<<"#">> \o FormatHex02(v.value.items[1])
                    \o FormatHex02(v.value.items[2])
                    \o FormatHex02(v.value.items[3]))

rgbToHex(color) ==
    FormatHexColor(IF color.type = "str"
                   THEN PyEval(StrReplaceRgb(color.chars))
                   ELSE Return(color))

(***************************************************************************)
(* getContinuousColor                                                      *)
(***************************************************************************)
Unbound == [bound |-> FALSE, cutoff |-> 0, color |-> PyTuple(<<>>)]
Bound(cutoff, color) == [bound |-> TRUE, cutoff |-> cutoff, color |-> color]

EmptyScale_Off(cs) == FALSE

\* len(colorscale) < 1
EmptyScale(cs) == Len(cs) < 1

ReturnsFirst_NoSingle(cs, intermed) == intermed <= 0

\* intermed <= 0 or len(colorscale) == 1
ReturnsFirst(cs, intermed) == intermed <= 0 \/ Len(cs) = 1

\* intermed >= 1
ReturnsLast(cs, intermed) == intermed >= Unit

\* the for loop: every stop below intermed becomes low, the first stop at or
\* above it becomes high and ends the loop; a name never assigned stays
\* unbound. exc is the exception of an eval that failed.
RECURSIVE ScanStops_Inclusive(_, _, _, _)
ScanStops_Inclusive(cs, i, intermed, low) ==
    IF i > Len(cs) THEN [low |-> low, high |-> Unbound, exc |-> ""]
    ELSE LET c == PyEval(StrReplaceRgb(StrOf(cs[i].color)))
         IN  IF c.kind = "raise"
             THEN [low |-> low, high |-> Unbound, exc |-> c.exc]
             ELSE IF intermed >= cs[i].cutoff
             THEN ScanStops_Inclusive(cs, i + 1, intermed, Bound(cs[i].cutoff, c.value))
             ELSE [low |-> low, high |-> Bound(cs[i].cutoff, c.value), exc |-> ""]

RECURSIVE ScanStops(_, _, _, _)
ScanStops(cs, i, intermed, low) ==
    IF i > Len(cs) THEN [low |-> low, high |-> Unbound, exc |-> ""]
    ELSE LET c == PyEval(StrReplaceRgb(StrOf(cs[i].color)))
         IN  IF c.kind = "raise"
             THEN [low |-> low, high |-> Unbound, exc |-> c.exc]
             ELSE IF intermed > cs[i].cutoff
             THEN ScanStops(cs, i + 1, intermed, Bound(cs[i].cutoff, c.value))
             ELSE [low |-> low, high |-> Bound(cs[i].cutoff, c.value), exc |-> ""]

LocalPosition_NoOffset(intermed, low_cutoff, high_cutoff) ==
    [num |-> intermed, den |-> high_cutoff - low_cutoff]

\* (intermed - low_cutoff) / (high_cutoff - low_cutoff), as a fraction
LocalPosition(intermed, low_cutoff, high_cutoff) ==
    [num |-> intermed - low_cutoff, den |-> high_cutoff - low_cutoff]

find_intermediate_color_Swapped(lowcolor, highcolor, u) ==
    IF lowcolor.type = "int" \/ highcolor.type = "int" THEN Raise("TypeError")
    ELSE IF Len(lowcolor.items) < 3 \/ Len(highcolor.items) < 3
    THEN Raise("IndexError")
    ELSE Return([ch \in 1..3 |->
            [num |-> lowcolor.items[ch] * u.den
                        + u.num * (lowcolor.items[ch] - highcolor.items[ch]),
             den |-> u.den]])

\* plotly's find_intermediate_color on tuples:
\* lowcolor[ch] + intermed * (highcolor[ch] - lowcolor[ch]) per channel,
\* a fraction over the denominator of intermed
find_intermediate_color(lowcolor, highcolor, u) ==
    IF lowcolor.type = "int" \/ highcolor.type = "int" THEN Raise("TypeError")
    ELSE IF Len(lowcolor.items) < 3 \/ Len(highcolor.items) < 3
    THEN Raise("IndexError")
    ELSE Return([ch \in 1..3 |->
            [num |-> lowcolor.items[ch] * u.den
                        + u.num * (highcolor.items[ch] - lowcolor.items[ch]),
             den |-> u.den]])

PyInt_Round(q) == (2 * q.num + q.den) \div (2 * q.den)

\* int(x) of a float: truncation toward zero
PyInt(q) ==
    IF q.num >= 0 THEN q.num \div q.den ELSE -((-q.num) \div q.den)

\* int() of each channel of t, then rgbToHex
HexOfIntermediate(t) ==
    IF t.kind = "raise" THEN Raise(t.exc)
    ELSE rgbToHex(PyTuple(<<PyInt(t.value[1]), PyInt(t.value[2]),
                            PyInt(t.value[3])>>))

\* what follows the loop, given the names s it has bound
Interpolate(s, intermed) ==
    IF s.exc # "" THEN Raise(s.exc)
    ELSE IF ~s.low.bound \/ ~s.high.bound THEN Raise("UnboundLocalError")
    ELSE HexOfIntermediate(
            find_intermediate_color(s.low.color, s.high.color,
                LocalPosition(intermed, s.low.cutoff, s.high.cutoff)))

getContinuousColor(cs, intermed) ==
    IF EmptyScale(cs) THEN Raise("ValueError")
    ELSE IF ReturnsFirst(cs, intermed) THEN
        IF Len(cs) = 0 THEN Raise("IndexError")
        ELSE rgbToHex(PyStr(StrOf(cs[1].color)))
    ELSE IF ReturnsLast(cs, intermed) THEN
        IF Len(cs) = 0 THEN Raise("IndexError")
        ELSE rgbToHex(PyStr(StrOf(cs[Len(cs)].color)))
    ELSE Interpolate(ScanStops(cs, 1, intermed, Unbound), intermed)

(***************************************************************************)
(* Inputs                                                                  *)
(***************************************************************************)
Black == <<0, 0, 0>>
White == <<255, 255, 255>>
Green == <<134, 235, 135>>

\* the colours of the stops: a tuple and a plotly colour string
ScaleColors == {PyTuple(Green), PyStr(CompactRgb(White))}

Stops == [cutoff : 0..Unit, color : ScaleColors]

\* colorscales of at most MaxStops stops, ascending by cutoff
Colorscales ==
    {cs \in UNION {[1..n -> Stops] : n \in 0..MaxStops} :
        \A i \in 1..(Len(cs) - 1) : cs[i].cutoff <= cs[i + 1].cutoff}

\* the two-stop scale from black at 0.0 to white at 1.0
BlackToWhiteScale ==
    <<[cutoff |-> 0, color |-> PyStr(LabelRgb(Black))],
      [cutoff |-> Unit, color |-> PyStr(CompactRgb(White))]>>

\* the queries: the grid points from below 0.0 to above 1.0
QueryValues == -1..(Unit + 1)

ChannelValues == {0, 9, 15, 16, 128, 134, 135, 235, 255}

Colors == {<<r, g, b>> : r \in ChannelValues, g \in ChannelValues, b \in ChannelValues}

NoCall ==
    [fn |-> "none", intermed |-> 0, color |-> PyTuple(<<>>), ret |-> Return(<<>>)]

(***************************************************************************)
(* The classes around the colour helpers: Animation (graphs/animation.py), *)
(* Graph (graphs/types.py) and GanttChart (graphs/graphs.py).  A settings  *)
(* dictionary is a record over its keys; a dictionary given as an argument *)
(* names the keys it carries in keys (val holds the defaults elsewhere).   *)
(* File paths and output types are sequences of one-character strings.     *)
(***************************************************************************)
\* the longest side, in pixels, of a figure drawn
MaxSide == 4
\* the most Animation instances constructed
MaxAnimations == 2
\* the longest list of Gantt events drawn
MaxEvents == 3

\* dict.update(d): the keys d carries replace those of base
DictUpdate(base, d) ==
    [k \in DOMAIN base |-> IF k \in d.keys THEN d.val[k] ELSE base[k]]

\* the dictionary carrying the keys ks with the values of custom
DictOf(ks, custom, defaults) ==
    [keys |-> ks,
     val |-> [k \in DOMAIN defaults |-> IF k \in ks THEN custom[k] ELSE defaults[k]]]

\* round(): to the nearest integer, a tie to the even one, of num / den >= 0
PyRound(num, den) ==
    LET q == num \div den
        r == num % den
    IN  IF 2 * r < den THEN q
        ELSE IF 2 * r > den THEN q + 1
        ELSE IF q % 2 = 0 THEN q ELSE q + 1

\* pathlib.Path(path).suffix is not empty: the last dot of the final
\* component is neither its first nor its last character
HasSuffix(path) ==
    LET slashes == {i \in 1..Len(path) : path[i] = "/"}
        start == IF slashes = {} THEN 1
                 ELSE 1 + CHOOSE i \in slashes : \A j \in slashes : j <= i
        dots == {i \in start..Len(path) : path[i] = "."}
    IN  /\ dots # {}
        /\ LET last == CHOOSE i \in dots : \A j \in dots : j <= i
           IN  start < last /\ last < Len(path)

\* path + (f'.{type}' if not pathlib.Path(path).suffix else '')
WithSuffix(path, type) ==
    IF HasSuffix(path) THEN path ELSE path \o <<".">> \o type

Figures == [height : 1..MaxSide, width : 1..MaxSide]

NoFigure == [height |-> 0, width |-> 0]

ScaledSide_Inverse(size, side, other) ==
    IF side > other THEN size ELSE PyRound(size * other, side)

\* round(size * (1. if side > other else side / other))
ScaledSide(size, side, other) ==
    IF side > other THEN size ELSE PyRound(size * side, other)

\* Animation.settings, the class attribute
AnimationDefaults ==
    [fps |-> 10, frame_size |-> 1200, output_codec |-> "avc1",
     output_container |-> <<"m", "p", "4">>]

CustomAnimation ==
    [fps |-> 30, frame_size |-> 10, output_codec |-> "mp4v",
     output_container |-> <<"m", "o", "v">>]

\* the settings arguments given to Animation(): {} and three overrides
AnimationSettingsArgs ==
    {DictOf(ks, CustomAnimation, AnimationDefaults) : ks \in SUBSET {"fps", "frame_size"}}

AnimationPaths == {<<"a">>, <<"o", "/", "b", ".", "m", "p", "4">>}

NoAnimCall ==
    [fn |-> "none", id |-> 0, exc |-> "", encoder_opened |-> FALSE,
     driver_started |-> FALSE, fig |-> NoFigure, frame |-> NoFigure]

\* the settings dictionary Graph.__init__ builds; export_path is ten
\* characters chosen at random
GraphDefaults(path) ==
    [color_map |-> "Greens", content_color |-> "#1B9E31", font_size |-> 18,
     export_path |-> path, image_size |-> 1200, output_type |-> <<>>]

RandomPaths ==
    {<<"k", "Q", "3", "x", "Z", "a", "9", "m", "T", "e">>,
     <<"B", "u", "7", "r", "W", "c", "0", "y", "H", "d">>}

RestPath == <<"k", "Q", "3", "x", "Z", "a", "9", "m", "T", "e">>

CustomGraph ==
    [color_map |-> "Blues", content_color |-> "#FF0000", font_size |-> 12,
     export_path |-> <<"c">>, image_size |-> 10, output_type |-> <<"p", "n", "g">>]

\* the settings arguments given to Graph.updateSettings
GraphSettingsArgs ==
    {DictOf({"export_path"}, CustomGraph, GraphDefaults(RestPath)),
     DictOf({"image_size"}, CustomGraph, GraphDefaults(RestPath)),
     DictOf({"output_type"}, CustomGraph, GraphDefaults(RestPath)),
     DictOf({"output_type"}, [CustomGraph EXCEPT !.output_type = <<"s", "v", "g">>],
            GraphDefaults(RestPath)),
     DictOf({"output_type"}, [CustomGraph EXCEPT !.output_type = <<"j", "p", "e", "g">>],
            GraphDefaults(RestPath)),
     DictOf({"output_type", "image_size"},
            [CustomGraph EXCEPT !.output_type = <<>>, !.image_size = 1200],
            GraphDefaults(RestPath))}

\* the export_path arguments given to Graph.render: none, a bare name and
\* a name with its own suffix
RenderPaths == {<<>>, <<"d">>, <<"o", "/", "e", ".", "p", "n", "g">>}

NoExport == [kind |-> "none", path |-> <<>>, backend |-> ""]

NoGraphCall ==
    [fn |-> "none", export_path |-> <<>>, fig |-> NoFigure,
     resized |-> NoFigure, font_size |-> 0, out |-> NoExport]

NoGanttCall ==
    [fn |-> "none", kind |-> "none", exc |-> "", missing |-> "", df_built |-> FALSE,
     reference |-> <<>>, colors |-> <<>>, color_by |-> "",
     show_legend |-> FALSE, width |-> 0]

\* no Animation constructed yet
AnimationAtRest ==
    /\ anim_settings = AnimationDefaults
    /\ animations = <<>>
    /\ anim_call = NoAnimCall

\* a Graph just constructed
GraphAtRest ==
    /\ graph_settings = GraphDefaults(RestPath)
    /\ graph_call = NoGraphCall

\* no Gantt chart asked for
GanttAtRest ==
    /\ events = <<>>
    /\ gantt_call = NoGanttCall

(***************************************************************************)
(* The state machine: a caller holding a colorscale and a colour calls the *)
(* two functions; call records the last call and what it returned.         *)
(***************************************************************************)
Init ==
    /\ call = NoCall
    /\ \/ colorscale \in Colorscales \cup {BlackToWhiteScale} /\ rgb = Green
       \/ colorscale = <<>> /\ rgb \in Colors
    /\ AnimationAtRest
    /\ GraphAtRest
    /\ GanttAtRest

GetContinuousColor_Consuming(t) ==
    /\ call' = [fn |-> "getContinuousColor", intermed |-> t,
                color |-> PyTuple(<<>>),
                ret |-> getContinuousColor(colorscale, t)]
    /\ colorscale' = IF colorscale = <<>> THEN <<>> ELSE Tail(colorscale)
    /\ UNCHANGED rgb
    /\ UNCHANGED <<animVars, graphVars, ganttVars>>

GetContinuousColor(t) ==
    /\ call' = [fn |-> "getContinuousColor", intermed |-> t,
                color |-> PyTuple(<<>>),
                ret |-> getContinuousColor(colorscale, t)]
    /\ UNCHANGED <<colorscale, rgb>>
    /\ UNCHANGED <<animVars, graphVars, ganttVars>>

RgbToHexTuple ==
    /\ call' = [fn |-> "rgbToHex", intermed |-> 0, color |-> PyTuple(rgb),
                ret |-> rgbToHex(PyTuple(rgb))]
    /\ UNCHANGED <<colorscale, rgb>>
    /\ UNCHANGED <<animVars, graphVars, ganttVars>>

RgbToHexStr ==
    /\ call' = [fn |-> "rgbToHex", intermed |-> 0, color |-> PyStr(LabelRgb(rgb)),
                ret |-> rgbToHex(PyStr(LabelRgb(rgb)))]
    /\ UNCHANGED <<colorscale, rgb>>
    /\ UNCHANGED <<animVars, graphVars, ganttVars>>

Next ==
    \/ \E t \in QueryValues : GetContinuousColor(t)
    \/ RgbToHexTuple
    \/ RgbToHexStr

Spec == Init /\ [][Next]_vars

(***************************************************************************)
(* Reading a result back: the hex string decoded independently of the      *)
(* formatter, and the channels of a stop                                   *)
(***************************************************************************)
HexDigitSet ==
    {"0", "1", "2", "3", "4", "5", "6", "7", "8", "9", "a", "b", "c", "d", "e", "f"}

HexDigitValue(c) ==
    CASE c = "0" -> 0 [] c = "1" -> 1 [] c = "2" -> 2 [] c = "3" -> 3
      [] c = "4" -> 4 [] c = "5" -> 5 [] c = "6" -> 6 [] c = "7" -> 7
      [] c = "8" -> 8 [] c = "9" -> 9 [] c = "a" -> 10 [] c = "b" -> 11
      [] c = "c" -> 12 [] c = "d" -> 13 [] c = "e" -> 14 [] c = "f" -> 15

\* '#' followed by exactly six lowercase hex digits
IsHexColor(h) ==
    /\ Len(h) = 7
    /\ h[1] = "#"
    /\ \A i \in 2..7 : h[i] \in HexDigitSet

HexChannels(h) ==
    [ch \in 1..3 |-> 16 * HexDigitValue(h[2 * ch]) + HexDigitValue(h[2 * ch + 1])]

\* the call returned the colour with channels rgbv
ReturnsColor(ret, rgbv) ==
    /\ ret.kind = "return"
    /\ IsHexColor(ret.value)
    /\ HexChannels(ret.value) = rgbv

\* the (r, g, b) of a stop of the colorscale
StopChannels(stop) ==
    IF stop.color.type = "tuple" THEN stop.color.items
    ELSE PyEval(StrReplaceRgb(stop.color.chars)).value.items

Interpolating == call.fn = "getContinuousColor"

StrictlyAscending(cs) ==
    \A i \in 1..(Len(cs) - 1) : cs[i].cutoff < cs[i + 1].cutoff

\* C1: for a non-empty sorted colorscale (first cutoff 0 or greater) and a
\* query t <= the first cutoff, getContinuousColor returns the colour of the
\* first stop, and raises nothing.
C1_ClampsAtFirstCutoff ==
    (Interpolating /\ Len(colorscale) >= 1
        /\ call.intermed <= colorscale[1].cutoff)
    => ReturnsColor(call.ret, StopChannels(colorscale[1]))

\* C2: for a non-empty colorscale of ascending cutoffs (last cutoff 1 or
\* less) and a query t >= the last cutoff, getContinuousColor returns the
\* colour of the last stop, and raises nothing.
C2_ClampsAtLastCutoff ==
    (Interpolating /\ Len(colorscale) >= 1 /\ StrictlyAscending(colorscale)
        /\ call.intermed >= colorscale[Len(colorscale)].cutoff)
    => ReturnsColor(call.ret, StopChannels(colorscale[Len(colorscale)]))

\* C3: for a non-empty colorscale of ascending cutoffs and any stop i, a
\* query equal to the cutoff of stop i returns exactly the colour of stop i.
C3_ExactAtEveryCutoff ==
    (Interpolating /\ StrictlyAscending(colorscale))
    => \A i \in 1..Len(colorscale) :
        call.intermed = colorscale[i].cutoff
        => ReturnsColor(call.ret, StopChannels(colorscale[i]))

(***************************************************************************)
(* The general case, stated from the colorscale: high is the first stop    *)
(* whose cutoff is >= t, low the stop before it; Exact(ch) is the          *)
(* numerator of low[ch] + u * (high[ch] - low[ch]) over Span.              *)
(***************************************************************************)
GeneralCase ==
    /\ Interpolating
    /\ Len(colorscale) >= 2
    /\ colorscale[1].cutoff < call.intermed
    /\ call.intermed < colorscale[Len(colorscale)].cutoff

HighIndex ==
    CHOOSE i \in 2..Len(colorscale) :
        /\ colorscale[i].cutoff >= call.intermed
        /\ \A j \in 1..(i - 1) : colorscale[j].cutoff < call.intermed

Span == colorscale[HighIndex].cutoff - colorscale[HighIndex - 1].cutoff

Exact(ch) ==
    LET low == colorscale[HighIndex - 1]
        high == colorscale[HighIndex]
    IN  StopChannels(low)[ch] * Span
            + (call.intermed - low.cutoff)
                * (StopChannels(high)[ch] - StopChannels(low)[ch])

\* C4 (as amended): in the general case each channel of the result is the
\* linearly interpolated value low[ch] + u * (high[ch] - low[ch]) truncated
\* to an integer (int()), independently for R, G and B.
C4_TruncatedInterpolation ==
    GeneralCase =>
        /\ call.ret.kind = "return"
        /\ IsHexColor(call.ret.value)
        /\ \A ch \in 1..3 :
            LET c == HexChannels(call.ret.value)[ch]
            IN  c * Span <= Exact(ch) /\ Exact(ch) < (c + 1) * Span

\* C4 (as claimed): in the general case each channel of the result is the
\* linearly interpolated value rounded to the nearest integer.
C4_RoundedInterpolation ==
    GeneralCase =>
        /\ call.ret.kind = "return"
        /\ IsHexColor(call.ret.value)
        /\ \A ch \in 1..3 :
            LET c == HexChannels(call.ret.value)[ch]
            IN  2 * (c * Span - Exact(ch)) <= Span
                    /\ 2 * (Exact(ch) - c * Span) <= Span

\* a general-case call whose interpolated value lies above the half, where
\* truncating and rounding differ
C4_FractionAboveHalf ==
    /\ GeneralCase
    /\ call.ret.kind = "return"
    /\ \E ch \in 1..3 : 2 * (Exact(ch) % Span) > Span

\* C5: whatever the query (inside or outside [0, 1]), every channel of a
\* colour getContinuousColor returns is an integer in 0..255, so the result
\* is '#' followed by exactly six hex digits.
C5_ChannelsInRange ==
    (Interpolating /\ call.ret.kind = "return") =>
        /\ IsHexColor(call.ret.value)
        /\ \A ch \in 1..3 : HexChannels(call.ret.value)[ch] \in 0..255

\* an interpolated colour strictly between two stops of different colours
\* that do not start at cutoff 0
C5_InterpolatedAboveZeroCutoff ==
    /\ GeneralCase
    /\ colorscale[HighIndex - 1].cutoff > 0
    /\ call.intermed < colorscale[HighIndex].cutoff
    /\ StopChannels(colorscale[HighIndex - 1]) = Green
    /\ StopChannels(colorscale[HighIndex]) = White
    /\ call.ret.kind = "return"

BlackToWhite ==
    /\ Len(colorscale) = 2
    /\ colorscale[1].cutoff = 0
    /\ colorscale[2].cutoff = Unit
    /\ StopChannels(colorscale[1]) = Black
    /\ StopChannels(colorscale[2]) = White

\* C6: on the scale black at 0 to white at 1, the result at t = 0.5 is a gray
\* of value 127 or 128, and of two calls the one with the larger t has no
\* smaller channel.
C6_MonotoneBlackToWhite ==
    [][(BlackToWhite /\ call'.fn = "getContinuousColor") =>
        /\ call'.ret.kind = "return"
        /\ IsHexColor(call'.ret.value)
        /\ 2 * call'.intermed = Unit =>
            \E v \in {127, 128} : HexChannels(call'.ret.value) = <<v, v, v>>
        /\ (Interpolating /\ call.ret.kind = "return"
                /\ IsHexColor(call.ret.value)
                /\ call.intermed <= call'.intermed) =>
            \A ch \in 1..3 :
                HexChannels(call.ret.value)[ch] <= HexChannels(call'.ret.value)[ch]
        /\ (Interpolating /\ call.ret.kind = "return"
                /\ IsHexColor(call.ret.value)
                /\ call'.intermed <= call.intermed) =>
            \A ch \in 1..3 :
                HexChannels(call'.ret.value)[ch] <= HexChannels(call.ret.value)[ch]
    ]_vars

\* the black-to-white scale queried at t = 0.5 gave a mid-gray
C6_MidGray ==
    /\ BlackToWhite
    /\ Interpolating
    /\ 2 * call.intermed = Unit
    /\ ReturnsColor(call.ret, <<127, 127, 127>>)

\* C7: a colorscale of exactly one stop gives that stop's colour for every
\* t, below 0, inside (0, 1) and above 1, whatever its cutoff.
C7_SingleStop ==
    (Interpolating /\ Len(colorscale) = 1)
    => ReturnsColor(call.ret, StopChannels(colorscale[1]))

\* a one-stop scale queried strictly inside (0, 1), on either side of its
\* cutoff
C7_SingleStopInside ==
    /\ Interpolating
    /\ Len(colorscale) = 1
    /\ 0 < call.intermed /\ call.intermed < Unit
    /\ call.intermed # colorscale[1].cutoff
    /\ call.ret.kind = "return"

\* C8: with an empty colorscale getContinuousColor raises ValueError for
\* every t; it returns no colour.
C8_EmptyScaleRaises ==
    (Interpolating /\ Len(colorscale) = 0) => call.ret = Raise("ValueError")

\* the empty colorscale was queried and the call raised
C8_EmptyScaleQueried ==
    /\ Interpolating
    /\ colorscale = <<>>
    /\ call.intermed \in 1..(Unit - 1)
    /\ call.ret.kind = "raise"

\* C9: for a triple of integers in 0..255, rgbToHex returns 7 characters:
\* '#', then r, g and b as two zero-padded lowercase hex digits each.
C9_HexOfTriple ==
    (call.fn = "rgbToHex" /\ call.color.type = "tuple") =>
        /\ ReturnsColor(call.ret, call.color.items)
        /\ call.color.items = White =>
            call.ret.value = <<"#", "f", "f", "f", "f", "f", "f">>
        /\ call.color.items = Black =>
            call.ret.value = <<"#", "0", "0", "0", "0", "0", "0">>
        /\ call.color.items = Green =>
            call.ret.value = <<"#", "8", "6", "e", "b", "8", "7">>

\* rgbToHex((134, 235, 135)) returned '#86eb87'
C9_GreenTriple ==
    /\ call.fn = "rgbToHex"
    /\ call.color = PyTuple(Green)
    /\ call.ret = Return(<<"#", "8", "6", "e", "b", "8", "7">>)

\* C10: rgbToHex of the string 'rgb(r, g, b)' returns the hex string that
\* rgbToHex of the triple (r, g, b) returns.
C10_StringFormEqualsTriple ==
    (call.fn = "rgbToHex" /\ call.color.type = "str") =>
        /\ call.color.chars = LabelRgb(rgb)
        /\ call.ret.kind = "return"
        /\ call.ret = rgbToHex(PyTuple(rgb))
        /\ ReturnsColor(call.ret, rgb)

\* rgbToHex('rgb(9, 128, 255)') returned '#0980ff'
C10_StringCall ==
    /\ call.fn = "rgbToHex"
    /\ call.color = PyStr(LabelRgb(<<9, 128, 255>>))
    /\ call.ret = Return(<<"#", "0", "9", "8", "0", "f", "f">>)

(***************************************************************************)
(* rgbToHex on colours outside its intended domain: triples with channels  *)
(* below 0 or above 255, and strings that do not hold three integers.      *)
(***************************************************************************)
WideChannelValues == {-17, -1, 0, 255, 256, 300}

WideColors ==
    {<<r, g, b>> : r \in WideChannelValues, g \in WideChannelValues, b \in WideChannelValues}

\* strings holding fewer than three integers:
\* 'rgb(1, 2)', 'rgb(7)', 'rgb()', '' and 'rgb(1, , 3)'
TooFewColors ==
    {<<"r", "g", "b", "(", "1", ",", " ", "2", ")">>,
     <<"r", "g", "b", "(", "7", ")">>,
     <<"r", "g", "b", "(", ")">>,
     <<>>,
     <<"r", "g", "b", "(", "1", ",", " ", ",", " ", "3", ")">>}

\* strings with a component that is not a number:
\* 'rgb(a, 2, 3)', 'rgb(1, 2, x)' and 'rgb(1, $, 3)'
NonNumericColors ==
    {<<"r", "g", "b", "(", "a", ",", " ", "2", ",", " ", "3", ")">>,
     <<"r", "g", "b", "(", "1", ",", " ", "2", ",", " ", "x", ")">>,
     <<"r", "g", "b", "(", "1", ",", " ", "$", ",", " ", "3", ")">>}

\* 'rgb(True, 2, 3)': a component that is a name Python binds to a number
BoolColor == <<"r", "g", "b", "(", "T", "r", "u", "e", ",", " ", "2", ",", " ", "3", ")">>

MalformedColors == TooFewColors \cup NonNumericColors \cup {BoolColor}

InitHex ==
    /\ call = NoCall
    /\ colorscale = <<>>
    /\ rgb \in WideColors
    /\ AnimationAtRest
    /\ GraphAtRest
    /\ GanttAtRest

\* rgbToHex(s) of a string s written by the caller
RgbToHexMalformed(s) ==
    /\ call' = [fn |-> "rgbToHex", intermed |-> 0, color |-> PyStr(s),
                ret |-> rgbToHex(PyStr(s))]
    /\ UNCHANGED <<colorscale, rgb>>
    /\ UNCHANGED <<animVars, graphVars, ganttVars>>

NextHex ==
    \/ RgbToHexTuple
    \/ RgbToHexStr
    \/ \E s \in MalformedColors : RgbToHexMalformed(s)

SpecHex == InitHex /\ [][NextHex]_vars

\* the call was rgbToHex of a string of the set strs
CalledWithString(strs) ==
    /\ call.fn = "rgbToHex"
    /\ call.color.type = "str"
    /\ call.color.chars \in strs

OutOfRangeTriple ==
    /\ call.fn = "rgbToHex"
    /\ call.color.type = "tuple"
    /\ \E ch \in 1..3 : call.color.items[ch] < 0 \/ call.color.items[ch] > 255

\* C12: rgbToHex of an integer triple with a channel outside [0, 255] does
\* not raise: it returns a string (one that begins with '#').
C12_OutOfRangeReturns ==
    OutOfRangeTriple =>
        /\ call.ret.kind = "return"
        /\ Len(call.ret.value) >= 1
        /\ call.ret.value[1] = "#"

\* rgbToHex((-17, 300, 0)) returned '#-1112c00'
C12_NegativeAndLarge ==
    /\ OutOfRangeTriple
    /\ call.color.items = <<-17, 300, 0>>
    /\ call.ret = Return(<<"#", "-", "1", "1", "1", "2", "c", "0", "0">>)

\* C13: getContinuousColor and rgbToHex are pure: no call changes the
\* colorscale or the colour the caller passed, and whatever calls came
\* before, the result on record is the function of the arguments alone.
C13_PureCalls ==
    /\ [][colorscale' = colorscale /\ rgb' = rgb]_vars
    /\ []((call.fn = "getContinuousColor")
            => call.ret = getContinuousColor(colorscale, call.intermed))
    /\ []((call.fn = "rgbToHex") => call.ret = rgbToHex(call.color))

\* black at 0 to white at 1 queried at 3/4 returned '#bfbfbf', the scale
\* still being the one passed in
C13_ScaleKept ==
    /\ call.fn = "getContinuousColor"
    /\ colorscale = BlackToWhiteScale
    /\ call.intermed * 4 = Unit * 3
    /\ call.ret = Return(<<"#", "b", "f", "b", "f", "b", "f">>)

(***************************************************************************)
(* Animation (graphs/animation.py).  settings is a class attribute: the    *)
(* one dictionary anim_settings is what self.settings names in every       *)
(* instance, and __init__ updates it in place.  An instance's id is its    *)
(* position in animations.  Whether cv2 can open the encoder for the path  *)
(* and codec asked is an input of the constructor.  The frames already     *)
(* written are not kept: no operation reads them.                          *)
(***************************************************************************)
InitAnimation ==
    /\ call = NoCall
    /\ colorscale = <<>>
    /\ rgb = Green
    /\ AnimationAtRest
    /\ GraphAtRest
    /\ GanttAtRest

\* cv2.VideoWriter(export_path, ...): the encoder, open on the file at path
\* (the codec, rate and size it was opened with are never read again)
VideoWriter(path, settings) == [path |-> path, state |-> "open"]

\* the figures given to createFrame: portrait, landscape and square
FrameFigures == [height : 1..2, width : 1..2]

\* self.settings of the instance i: the class attribute
InstanceSettings(i) == anim_settings

AnimCall(fn, id, exc, opened, started, fig, frame) ==
    [fn |-> fn, id |-> id, exc |-> exc, encoder_opened |-> opened,
     driver_started |-> started, fig |-> fig, frame |-> frame]

NewAnimation_DriverFirst(export_path, settings, opens) ==
    /\ Len(animations) < MaxAnimations
    /\ LET updated == IF settings.keys # {} THEN DictUpdate(anim_settings, settings)
                      ELSE anim_settings
           path == WithSuffix(export_path, updated.output_container)
       IN  /\ anim_settings' = updated
           /\ animations' =
                IF opens
                THEN Append(animations, [given |-> settings, driver |-> TRUE,
                                         encoder |-> VideoWriter(path, updated)])
                ELSE animations
           /\ anim_call' = AnimCall("__init__", IF opens THEN Len(animations) + 1 ELSE 0,
                                    IF opens THEN "" ELSE "ValueError",
                                    opens, TRUE, NoFigure, NoFigure)
    /\ UNCHANGED <<colorVars, graphVars, ganttVars>>

\* Animation(export_path, settings); opens is encoder.isOpened()
NewAnimation(export_path, settings, opens) ==
    /\ Len(animations) < MaxAnimations
    /\ LET updated == IF settings.keys # {} THEN DictUpdate(anim_settings, settings)
                      ELSE anim_settings
           path == WithSuffix(export_path, updated.output_container)
       IN  /\ anim_settings' = updated
           /\ animations' =
                IF opens
                THEN Append(animations, [given |-> settings, driver |-> TRUE,
                                         encoder |-> VideoWriter(path, updated)])
                ELSE animations
           /\ anim_call' = AnimCall("__init__", IF opens THEN Len(animations) + 1 ELSE 0,
                                    IF opens THEN "" ELSE "ValueError",
                                    opens, opens, NoFigure, NoFigure)
    /\ UNCHANGED <<colorVars, graphVars, ganttVars>>

\* animations[i].createFrame(fig): the figure scaled to frame_size
CreateFrame(i, fig) ==
    /\ i \in 1..Len(animations)
    /\ anim_call' = AnimCall("createFrame", i, "", FALSE, FALSE, fig,
            [height |-> ScaledSide(InstanceSettings(i).frame_size, fig.height, fig.width),
             width |-> ScaledSide(InstanceSettings(i).frame_size, fig.width, fig.height)])
    /\ UNCHANGED <<anim_settings, animations>>
    /\ UNCHANGED <<colorVars, graphVars, ganttVars>>

\* animations[i].render(): self.encoder.release()
AnimationRender(i) ==
    /\ i \in 1..Len(animations)
    /\ animations' = [animations EXCEPT ![i].encoder.state = "released"]
    /\ anim_call' = AnimCall("render", i, "", FALSE, FALSE, NoFigure, NoFigure)
    /\ UNCHANGED anim_settings
    /\ UNCHANGED <<colorVars, graphVars, ganttVars>>

NextAnimation ==
    \/ \E p \in AnimationPaths, s \in AnimationSettingsArgs, opens \in BOOLEAN :
          NewAnimation(p, s, opens)
    \/ \E i \in 1..MaxAnimations, fig \in FrameFigures : CreateFrame(i, fig)
    \/ \E i \in 1..MaxAnimations : AnimationRender(i)

SpecAnimation == InitAnimation /\ [][NextAnimation]_vars

\* C14 as stated: the settings an Animation instance uses are the defaults
\* overridden by the settings given to its own constructor, whatever was
\* called or constructed afterwards.
C14_SettingsFixedAtConstruction ==
    \A i \in 1..Len(animations) :
        InstanceSettings(i) = DictUpdate(AnimationDefaults, animations[i].given)

\* C20: a constructor whose encoder did not open raised ValueError and
\* started no web driver; a web driver was started only by a constructor
\* whose encoder had opened, and every instance there is has both.
C20_EncoderBeforeDriver ==
    /\ anim_call.fn = "__init__" =>
          /\ ~anim_call.encoder_opened <=> anim_call.exc = "ValueError"
          /\ anim_call.driver_started <=> anim_call.encoder_opened
    /\ \A i \in 1..Len(animations) :
          animations[i].driver /\ animations[i].encoder.state \in {"open", "released"}

\* a constructor failed on its encoder while an earlier instance exists
C20_EncoderFailed ==
    /\ anim_call.fn = "__init__"
    /\ anim_call.exc = "ValueError"
    /\ ~anim_call.encoder_opened
    /\ Len(animations) = 1

(***************************************************************************)
(* Graph (graphs/types.py): updateSettings and render of one Graph, whose  *)
(* settings dictionary is its own.  Beside it stands one Animation, whose  *)
(* createFrame scales a figure as render does.                             *)
(***************************************************************************)
\* an Animation constructed with the settings given, its encoder open
AnimationReady(settings) ==
    /\ anim_settings = DictUpdate(AnimationDefaults, settings)
    /\ animations = <<[given |-> settings, driver |-> TRUE,
                       encoder |-> VideoWriter(WithSuffix(<<"a">>, anim_settings.output_container),
                                               anim_settings)]>>
    /\ anim_call = AnimCall("__init__", 1, "", TRUE, TRUE, NoFigure, NoFigure)

InitGraph ==
    /\ call = NoCall
    /\ colorscale = <<>>
    /\ rgb = Green
    /\ \E s \in AnimationSettingsArgs : "fps" \notin s.keys /\ AnimationReady(s)
    /\ \E p \in RandomPaths : graph_settings = GraphDefaults(p)
    /\ graph_call = NoGraphCall
    /\ GanttAtRest

GraphCall(fn, export_path, fig, resized, font_size, out) ==
    [fn |-> fn, export_path |-> export_path, fig |-> fig,
     resized |-> resized, font_size |-> font_size, out |-> out]

\* graph.updateSettings(settings)
UpdateSettings(settings) ==
    /\ graph_settings' = DictUpdate(graph_settings, settings)
    /\ graph_call' = GraphCall("updateSettings", <<>>, NoFigure, NoFigure, 0, NoExport)
    /\ UNCHANGED <<colorVars, animVars, ganttVars>>

\* the path render writes to: the argument, or the setting when it is ''
ExportTarget(export_path) ==
    WithSuffix(IF export_path = <<>> THEN graph_settings.export_path ELSE export_path,
               graph_settings.output_type)

\* the figure as render leaves it: scaled when an output type is set
RenderResized(fig) ==
    IF graph_settings.output_type # <<>>
    THEN [height |-> ScaledSide(graph_settings.image_size, fig.height, fig.width),
          width |-> ScaledSide(graph_settings.image_size, fig.width, fig.height)]
    ELSE fig

\* round(font_size * (image_size / max(tmp_height, tmp_width))), or 0 when
\* render sets no font size
RenderFontSize(fig) ==
    IF graph_settings.output_type # <<>>
    THEN PyRound(graph_settings.font_size * graph_settings.image_size,
                 IF fig.height > fig.width THEN fig.height ELSE fig.width)
    ELSE 0

\* what render does with the figure: cv2.imwrite, export_svg or show
RenderOutput(path) ==
    IF graph_settings.output_type \in {<<"p", "n", "g">>, <<"j", "p", "e", "g">>}
    THEN [kind |-> "file", path |-> path, backend |-> "cv2.imwrite"]
    ELSE IF graph_settings.output_type = <<"s", "v", "g">>
    THEN [kind |-> "file", path |-> path, backend |-> "export_svg"]
    ELSE [kind |-> "shown", path |-> <<>>, backend |-> "show"]

GraphRender_Storing(fig, export_path) ==
    /\ graph_call' = GraphCall("render", export_path, fig, RenderResized(fig),
                               RenderFontSize(fig), RenderOutput(ExportTarget(export_path)))
    /\ graph_settings' =
          IF export_path = <<>> THEN graph_settings
          ELSE [graph_settings EXCEPT !.export_path = export_path]
    /\ UNCHANGED <<colorVars, animVars, ganttVars>>

\* graph.render(fig, export_path)
GraphRender(fig, export_path) ==
    /\ graph_call' = GraphCall("render", export_path, fig, RenderResized(fig),
                               RenderFontSize(fig), RenderOutput(ExportTarget(export_path)))
    /\ UNCHANGED graph_settings
    /\ UNCHANGED <<colorVars, animVars, ganttVars>>

NextGraph ==
    \/ \E s \in GraphSettingsArgs : UpdateSettings(s)
    \/ \E fig \in Figures, p \in RenderPaths : GraphRender(fig, p)
    \/ \E i \in 1..MaxAnimations, fig \in Figures : CreateFrame(i, fig)

SpecGraph == InitGraph /\ [][NextGraph]_vars

\* the last Graph call was render, and it wrote a file
Exported == graph_call.fn = "render" /\ graph_call.out.kind = "file"

\* C15: render leaves self.settings as it was; a file it writes goes to
\* the export_path argument when one is given (with '.' and the output
\* type appended when the argument has no suffix of its own), and to
\* settings['export_path'] (likewise completed) only when the argument is
\* empty.
C15_RenderKeepsSettings ==
    [][graph_call'.fn = "render" =>
          /\ graph_settings' = graph_settings
          /\ graph_call'.out.kind = "file" =>
                LET arg == graph_call'.export_path
                    used == IF arg # <<>> THEN arg ELSE graph_settings.export_path
                IN  graph_call'.out.path \in
                        {used, used \o <<".">> \o graph_settings.output_type}]_vars

\* render(fig, 'd') with output type png wrote 'd.png' while
\* settings['export_path'] is another path
C15_ExportedToArgument ==
    /\ Exported
    /\ graph_call.export_path = <<"d">>
    /\ graph_call.out.path = <<"d", ".", "p", "n", "g">>
    /\ graph_settings.export_path = <<"c">>

\* the figure of h by w came out scaled to size: the larger side is size,
\* the other the integer nearest to size * smaller / larger, none above size
ResizedTo(size, fig, out) ==
    LET larger == IF fig.height > fig.width THEN fig.height ELSE fig.width
    IN  /\ fig.height >= fig.width => out.height = size
        /\ fig.width >= fig.height => out.width = size
        /\ 2 * (out.height * larger - size * fig.height) <= larger
        /\ 2 * (size * fig.height - out.height * larger) <= larger
        /\ 2 * (out.width * larger - size * fig.width) <= larger
        /\ 2 * (size * fig.width - out.width * larger) <= larger
        /\ out.height <= size
        /\ out.width <= size

\* C16: a figure rendered with an output type set, or turned into a frame,
\* is resized so that its larger side is exactly image_size (frame_size),
\* its smaller side is size * min(h, w) / max(h, w) rounded to an integer,
\* a square gets both sides equal to the size, and no side exceeds it.
C16_ResizedToConfiguredSize ==
    /\ (graph_call.fn = "render" /\ graph_settings.output_type # <<>>) =>
          ResizedTo(graph_settings.image_size, graph_call.fig, graph_call.resized)
    /\ anim_call.fn = "createFrame" =>
          ResizedTo(InstanceSettings(anim_call.id).frame_size, anim_call.fig, anim_call.frame)

\* a figure 4 high and 3 wide exported at image_size 10 came out 10 by 8
\* (7.5 rounds to 8), and a frame of a 1 by 3 figure at frame_size 1200
\* came out 400 by 1200
C16_PortraitAndFrame ==
    /\ Exported
    /\ graph_settings.image_size = 10
    /\ graph_call.fig = [height |-> 4, width |-> 3]
    /\ graph_call.resized = [height |-> 10, width |-> 8]
    /\ anim_call.fn = "createFrame"
    /\ anim_settings.frame_size = 1200
    /\ anim_call.fig = [height |-> 1, width |-> 3]
    /\ anim_call.frame = [height |-> 400, width |-> 1200]

\* C17: for a sorted colorscale and a query strictly between the first and
\* the last cutoff, the scan takes as high the first stop whose cutoff is
\* at or above the query and as low the stop just before it, so that
\* low.cutoff < t <= high.cutoff.
C17_ScanBrackets ==
    GeneralCase =>
        LET scan == ScanStops(colorscale, 1, call.intermed, Unbound)
        IN  /\ scan.exc = ""
            /\ scan.low.bound /\ scan.high.bound
            /\ scan.high.cutoff = colorscale[HighIndex].cutoff
            /\ scan.high.color.items = StopChannels(colorscale[HighIndex])
            /\ scan.low.cutoff = colorscale[HighIndex - 1].cutoff
            /\ scan.low.color.items = StopChannels(colorscale[HighIndex - 1])
            /\ scan.low.cutoff < call.intermed
            /\ call.intermed <= scan.high.cutoff

\* three stops, the query on the cutoff of the middle one: the middle stop
\* is high and the first is low
C17_QueryOnMiddleCutoff ==
    /\ GeneralCase
    /\ Len(colorscale) = 3
    /\ HighIndex = 2
    /\ call.intermed = colorscale[2].cutoff
    /\ colorscale[2].cutoff < colorscale[3].cutoff
    /\ call.ret.kind = "return"

(***************************************************************************)
(* GanttChart.createFigure (graphs/graphs.py).  An event is the set of     *)
(* keys its dictionary carries with the values of 'reference' and 'color'  *)
(* ('' when the key is absent); names and dates are not looked at.  The    *)
(* events of one list carry the same optional keys, as those of            *)
(* example/main.py do.  A colour of the figure is either a value given     *)
(* (an event's colour, settings['content_color']) or a sample of the       *)
(* colour map at the position num / den of [0, 1].                         *)
(***************************************************************************)
RequiredKeys == {"event", "start", "end"}

OptionalKeys == {"reference", "color"}

GanttReferences == {"category_1", "category_2", "category_3"}

GanttColors == {"red", "blue"}

\* the events carrying the optional keys opt: complete ones with every
\* reference and colour, and ones that lack one required key
GanttEvents(opt) ==
    LET refs == IF "reference" \in opt THEN GanttReferences ELSE {""}
        cols == IF "color" \in opt THEN GanttColors ELSE {""}
    IN  [keys : {RequiredKeys \cup opt}, reference : refs, color : cols]
        \cup {[keys |-> (RequiredKeys \ {k}) \cup opt,
               reference |-> IF "reference" \in opt THEN "category_1" ELSE "",
               color |-> IF "color" \in opt THEN "red" ELSE ""] : k \in RequiredKeys}

EventLists ==
    UNION {[1..n -> GanttEvents(opt)] : n \in 0..MaxEvents, opt \in SUBSET OptionalKeys}

GivenColor(c) == [kind |-> "given", name |-> c, num |-> 0, den |-> 1]

\* utils.getContinuousColor(cmaps.PLOTLY_SCALES[map], f) for the k-th of
\* the n values f of np.linspace(0.0, 1.0, num=n), k counted from 0
SampledColor(map, k, n) ==
    [kind |-> "sampled", name |-> map, num |-> k, den |-> IF n > 1 THEN n - 1 ELSE 1]

Missing_NoEnd(g) ==
    IF "event" \notin g.keys THEN "event"
    ELSE IF "start" \notin g.keys THEN "start"
    ELSE ""

\* the key whose absence makes the type check raise for the event g
Missing(g) ==
    IF "event" \notin g.keys THEN "event"
    ELSE IF "start" \notin g.keys THEN "start"
    ELSE IF "end" \notin g.keys THEN "end"
    ELSE ""

\* for g in events: the first event the type check raises for, 0 if none
RECURSIVE FirstInvalid(_, _)
FirstInvalid(evs, i) ==
    IF i > Len(evs) THEN 0
    ELSE IF Missing(evs[i]) # "" THEN i
    ELSE FirstInvalid(evs, i + 1)

\* for c in df['color']: if c not in colors: colors.append(c)
RECURSIVE OrderedColors(_, _, _)
OrderedColors(evs, i, colors) ==
    IF i > Len(evs) THEN colors
    ELSE IF \E j \in 1..Len(colors) : colors[j] = GivenColor(evs[i].color)
    THEN OrderedColors(evs, i + 1, colors)
    ELSE OrderedColors(evs, i + 1, Append(colors, GivenColor(evs[i].color)))

\* the columns of pd.DataFrame(events)
Columns(evs) == UNION {evs[i].keys : i \in 1..Len(evs)}

\* 'reference' in df and 'color' in df
BothBranch(evs) ==
    [reference |-> [i \in 1..Len(evs) |-> evs[i].reference],
     colors |-> OrderedColors(evs, 1, <<>>), color_by |-> "reference",
     show_legend |-> TRUE]

\* elif 'reference' in df
ReferenceBranch(evs, color_map) ==
    LET n == Cardinality({evs[i].reference : i \in 1..Len(evs)})
    IN  [reference |-> [i \in 1..Len(evs) |-> evs[i].reference],
         colors |-> [k \in 1..n |-> SampledColor(color_map, k - 1, n)],
         color_by |-> "reference", show_legend |-> TRUE]

ColorBranch_Legend(evs) ==
    [reference |-> [i \in 1..Len(evs) |-> evs[i].color],
     colors |-> OrderedColors(evs, 1, <<>>), color_by |-> "reference",
     show_legend |-> TRUE]

\* elif 'color' in df
ColorBranch(evs) ==
    [reference |-> [i \in 1..Len(evs) |-> evs[i].color],
     colors |-> OrderedColors(evs, 1, <<>>), color_by |-> "reference",
     show_legend |-> FALSE]

\* else
PlainBranch(content_color) ==
    [reference |-> <<>>, colors |-> <<GivenColor(content_color)>>,
     color_by |-> "", show_legend |-> FALSE]

GanttCall(kind, exc, missing, df_built, styled) ==
    [fn |-> "createFigure", kind |-> kind, exc |-> exc, missing |-> missing,
     df_built |-> df_built, reference |-> styled.reference,
     colors |-> styled.colors, color_by |-> styled.color_by,
     show_legend |-> styled.show_legend,
     width |-> IF kind # "return" THEN 0 ELSE IF styled.show_legend THEN 900 ELSE 700]

Unstyled == [reference |-> <<>>, colors |-> <<>>, color_by |-> "", show_legend |-> FALSE]

\* gantt.createFigure(events): the type check, the data frame (whose
\* 'start' column an empty list lacks), the colours and the figure
CreateFigure ==
    /\ gantt_call' =
          IF FirstInvalid(events, 1) # 0
          THEN GanttCall("raise", "ValueError", Missing(events[FirstInvalid(events, 1)]),
                         FALSE, Unstyled)
          ELSE IF events = <<>>
          THEN GanttCall("raise", "KeyError", "", TRUE, Unstyled)
          ELSE IF "reference" \in Columns(events) /\ "color" \in Columns(events)
          THEN GanttCall("return", "", "", TRUE, BothBranch(events))
          ELSE IF "reference" \in Columns(events)
          THEN GanttCall("return", "", "", TRUE,
                         ReferenceBranch(events, graph_settings.color_map))
          ELSE IF "color" \in Columns(events)
          THEN GanttCall("return", "", "", TRUE, ColorBranch(events))
          ELSE GanttCall("return", "", "", TRUE, PlainBranch(graph_settings.content_color))
    /\ UNCHANGED events
    /\ UNCHANGED <<colorVars, animVars, graphVars>>

\* a GanttChart constructed with or without its own colour settings, and
\* the list of events its caller holds
InitGantt ==
    /\ call = NoCall
    /\ colorscale = <<>>
    /\ rgb = Green
    /\ AnimationAtRest
    /\ graph_settings \in
          {GraphDefaults(RestPath),
           DictUpdate(GraphDefaults(RestPath),
                      DictOf({"content_color", "color_map"}, CustomGraph, GraphDefaults(RestPath)))}
    /\ graph_call = NoGraphCall
    /\ events \in EventLists
    /\ gantt_call = NoGanttCall

NextGantt == CreateFigure

SpecGantt == InitGantt /\ [][NextGantt]_vars

\* the last createFigure call got past the type check and built a figure
FigureBuilt == gantt_call.fn = "createFigure" /\ gantt_call.kind = "return"

\* C18: createFigure raises ValueError exactly when some event lacks
\* 'event', 'start' or 'end', and then before any data frame or figure is
\* built; a list whose events all carry the three keys passes the check.
C18_ValidationFirst ==
    gantt_call.fn = "createFigure" =>
        /\ (\E i \in 1..Len(events) : ~(RequiredKeys \subseteq events[i].keys))
              <=> gantt_call.exc = "ValueError"
        /\ gantt_call.exc = "ValueError" =>
              /\ gantt_call.kind = "raise"
              /\ ~gantt_call.df_built
              /\ gantt_call.colors = <<>>

\* the first event is complete, the second lacks 'end': ValueError
C18_SecondEventLacksEnd ==
    /\ gantt_call.fn = "createFigure"
    /\ Len(events) >= 2
    /\ RequiredKeys \subseteq events[1].keys
    /\ events[2].keys \cap RequiredKeys = {"event", "start"}
    /\ gantt_call.exc = "ValueError"
    /\ gantt_call.missing = "end"

\* the position in events of the first event coloured c
FirstColoured(c) ==
    CHOOSE i \in 1..Len(events) :
        /\ events[i].color = c
        /\ \A j \in 1..(i - 1) : events[j].color # c

\* colors lists the distinct colours of the events, each once, in the
\* order in which they first appear
InOrderOfAppearance(colors) ==
    /\ \A k \in 1..Len(colors) : colors[k].kind = "given"
    /\ {colors[k].name : k \in 1..Len(colors)} = {events[i].color : i \in 1..Len(events)}
    /\ \A k, l \in 1..Len(colors) :
          k < l => FirstColoured(colors[k].name) < FirstColoured(colors[l].name)

\* colors holds one sample of the colour map per distinct reference, the
\* k-th of n at the position (k - 1) / (n - 1) of [0, 1]
EvenlySampled(colors, color_map) ==
    LET n == Cardinality({events[i].reference : i \in 1..Len(events)})
    IN  /\ Len(colors) = n
        /\ \A k \in 1..n :
              /\ colors[k].kind = "sampled"
              /\ colors[k].name = color_map
              /\ colors[k].den > 0
              /\ n > 1 => colors[k].num * (n - 1) = (k - 1) * colors[k].den
              /\ n = 1 => colors[k].num = 0

\* C19: the colours of the figure follow the optional keys of the events:
\* both keys, the distinct event colours in order of first appearance; only
\* 'reference', one colour-map sample per distinct reference, evenly spaced
\* over [0, 1]; only 'color', the distinct event colours in order of first
\* appearance, each event's reference being its colour; neither, the one
\* colour settings['content_color'].  The legend is shown exactly when the
\* events carry 'reference'.
C19_ColoursByOptionalKeys ==
    FigureBuilt =>
        LET opt == Columns(events) \cap OptionalKeys
        IN  /\ opt = {"reference", "color"} =>
                  InOrderOfAppearance(gantt_call.colors)
            /\ opt = {"reference"} =>
                  EvenlySampled(gantt_call.colors, graph_settings.color_map)
            /\ opt = {"color"} =>
                  /\ InOrderOfAppearance(gantt_call.colors)
                  /\ \A i \in 1..Len(events) : gantt_call.reference[i] = events[i].color
            /\ opt = {} =>
                  gantt_call.colors = <<GivenColor(graph_settings.content_color)>>
            /\ gantt_call.show_legend <=> "reference" \in opt

\* three events coloured blue, red, blue without references: the colours
\* are blue then red, the references the colours, and no legend is shown
C19_ColoursAsReferences ==
    /\ FigureBuilt
    /\ Len(events) = 3
    /\ Columns(events) \cap OptionalKeys = {"color"}
    /\ [i \in 1..3 |-> events[i].color] = <<"blue", "red", "blue">>
    /\ gantt_call.colors = <<GivenColor("blue"), GivenColor("red")>>
    /\ gantt_call.reference = <<"blue", "red", "blue">>
    /\ ~gantt_call.show_legend

====
